---------------------------- MODULE Spec2Model ----------------------------
(***************************************************************************)
(* Buquebus price client: the Credential Manager (_get_valid_token and the *)
(* token cache of the AR clients BuquebusClient / BuquebusClientV2 and of  *)
(* the UY client BuquebusClientUYU) and the Fare Aggregation Engine        *)
(* (fetch_day_web_prices_pro).                                             *)
(*                                                                         *)
(* Spec     threads calling _get_valid_token of one client concurrently,   *)
(*          the clock advancing in between.                                *)
(* SpecPro  one fetch_day_web_prices_pro query: its calling thread and the *)
(*          four ThreadPoolExecutor tasks.                                 *)
(*                                                                         *)
(* The two markets share no state but the environment and the clock: each  *)
(* has its own cache file, and only the UY class has a lock. A behaviour   *)
(* follows the threads of one client; Init chooses which.                  *)
(***************************************************************************)
EXTENDS Integers, Sequences, FiniteSets, TLC

\* ------------------------------------------------------------------ bounds
\* Threads that call _get_valid_token in Spec.
MaxCallers == 2
\* Clock advances in one behaviour.
MaxTicks == 2
\* Clock advances during one fetch_day_web_prices_pro query (SpecPro).
MaxProTicks == 1
\* The clock's value when the process starts.
Now0 == 1

\* ------------------------------------------------------- program constants
\* approx_exp = _now_ts() + (10 * 60 * 60)  /  self._now_ts() + 36000
TokenTTL == 36000

Markets == {"AR", "UY"}

\* Python's None for a token, and for the exp of a cache record (exp null or
\* the key missing; both read back the same way, see get_cached_token_*).
None == "None"
NoExp == 0 - 1

\* Python truthiness of an Optional[str].
Truthy(s) == s # None /\ s # ""
\* Python truthiness of an Optional[int].
TruthyInt(n) == n # NoExp /\ n # 0

\* The cache file does not exist.
NoFile == [token |-> None, exp |-> NoExp]

\* Values of the environment variable BQB_STATIC_TOKEN ("" is unset).
EnvValues == {"", " ov "}

\* str.strip() on the values above.
Strip(s) == IF s = " ov " THEN "ov" ELSE s

\* Tokens the site's front-end may hand to the browser session.
UpstreamTokens == {"tkA", "tkB"}

\* Amounts by which the clock advances in one step.
TickSteps == {1, TokenTTL - 1}

VARIABLES
    market,      \* the market of the client the threads run
    env,         \* os.environ["BQB_STATIC_TOKEN"]
    now,         \* int(time.time())
    ticks,       \* clock advances so far
    cache,       \* content of the client's CACHE_TOKEN_FILE
    token_lock,  \* BuquebusClientUYU._token_lock: the holder, 0 when free
    pc,          \* thread -> position inside _get_valid_token
    tok,         \* thread -> local tok
    exp,         \* thread -> local exp
    ret,         \* thread -> value returned, or the exception raised
    last,        \* history: the step taken last, <<action, thread>>
    qpc,         \* fetch_day_web_prices_pro: position of the calling thread
    qi,          \* UY: the seat class whose payload is built next
    fut,         \* seat class -> its future (the task's state and result)
    sent,        \* seat class -> "token" of the request body built for it
    qres,        \* what fetch_day_web_prices_pro returned or raised
    fn,          \* the pure function applied last ("none" before any)
    arg,         \* the input it is applied to
    res,         \* what it returned or raised
    bpc,         \* _obtain_token_via_playwright: the position inside it
    holder,      \* token_holder["tok"] / holder["tok"]
    passed,      \* history: the fallbacks passed, in order
    storage      \* STORAGE_STATE_FILE: "none", an "old" or the "new" snapshot

gvars == <<market, env, now, ticks, cache, token_lock, pc, tok, exp, ret, last>>
qvars == <<qpc, qi, fut, sent, qres>>
bvars == <<bpc, holder, passed, storage>>
pvars == <<fn, arg, res, bvars>>
vars == <<gvars, qvars, pvars>>

Callers == 1..MaxCallers
NoThread == 0
Threads == DOMAIN pc

\* Positions at which _get_valid_token has returned a token.
Returned == {"ret_env", "ret_cache", "ret_new"}

\* --------------------------------------------------------- token cache
\* BuquebusClient._get_cached_token: tok and exp and int(exp) > _now_ts()
get_cached_token_AR(rec, t) ==
    IF Truthy(rec.token) /\ TruthyInt(rec.exp) /\ rec.exp > t
    THEN rec.token ELSE None

\* BuquebusClientUYU._get_cached_token: data.get("token") and
\* data.get("exp", 0) > now; exp null raises TypeError, swallowed -> None.
get_cached_token_UY(rec, t) ==
    IF Truthy(rec.token)
    THEN IF rec.exp = NoExp THEN None
         ELSE IF rec.exp > t THEN rec.token ELSE None
    ELSE None

\* The comparison with the clock let an expiry equal to now through.
get_cached_token_ge(m, rec, t) ==
    IF Truthy(rec.token) /\ rec.exp # NoExp /\ rec.exp # 0 /\ rec.exp >= t
    THEN rec.token ELSE None

get_cached_token(m, rec, t) ==
    IF m = "AR" THEN get_cached_token_AR(rec, t) ELSE get_cached_token_UY(rec, t)

\* _save_token: the record written to the cache file.
save_token(token, e) == [token |-> token, exp |-> e]

\* ------------------------------------------------------ _get_valid_token
\* Leaving the `with self._token_lock:` block (UY only; AR has no lock).
Release(c) == IF token_lock = c THEN NoThread ELSE token_lock

\* AR: a thread enters _get_valid_token. The BQB_STATIC_TOKEN override is
\* returned first; else tok = self._get_cached_token(); if tok: return tok;
\* else the browser acquisition starts.
AR_Enter(c) ==
    /\ market = "AR"
    /\ pc[c] = "idle"
    /\ IF Truthy(env)
       THEN /\ pc' = [pc EXCEPT ![c] = "ret_env"]
            /\ ret' = [ret EXCEPT ![c] = Strip(env)]
            /\ tok' = tok
            /\ last' = <<"Override", c>>
       ELSE LET t == get_cached_token("AR", cache, now) IN
            /\ tok' = [tok EXCEPT ![c] = t]
            /\ IF Truthy(t)
               THEN /\ pc' = [pc EXCEPT ![c] = "ret_cache"]
                    /\ ret' = [ret EXCEPT ![c] = t]
               ELSE /\ pc' = [pc EXCEPT ![c] = "browser"]
                    /\ ret' = ret
            /\ last' = <<"FirstCheck", c>>
    /\ UNCHANGED <<pvars, market, env, now, ticks, cache, token_lock, exp, qvars>>

\* UY without the check before the lock: every caller queues on the lock.
UY_Enter_NoFastPath(c) ==
    /\ market = "UY"
    /\ pc[c] = "idle"
    /\ pc' = [pc EXCEPT ![c] = "lock"]
    /\ last' = <<"FirstCheck", c>>
    /\ UNCHANGED <<pvars, market, env, now, ticks, cache, token_lock, tok, exp, ret, qvars>>

\* UY: a thread enters _get_valid_token. There is no override; the check
\* before the lock.
UY_Enter(c) ==
    /\ market = "UY"
    /\ pc[c] = "idle"
    /\ LET t == get_cached_token("UY", cache, now) IN
       /\ tok' = [tok EXCEPT ![c] = t]
       /\ IF Truthy(t)
          THEN /\ pc' = [pc EXCEPT ![c] = "ret_cache"]
               /\ ret' = [ret EXCEPT ![c] = t]
          ELSE /\ pc' = [pc EXCEPT ![c] = "lock"]
               /\ ret' = ret
    /\ last' = <<"FirstCheck", c>>
    /\ UNCHANGED <<pvars, market, env, now, ticks, cache, token_lock, exp, qvars>>

\* UY: with self._token_lock:
UY_Lock(c) ==
    /\ pc[c] = "lock"
    /\ token_lock = NoThread
    /\ token_lock' = c
    /\ pc' = [pc EXCEPT ![c] = "cache2"]
    /\ last' = <<"Lock", c>>
    /\ UNCHANGED <<pvars, market, env, now, ticks, cache, tok, exp, ret, qvars>>

\* UY: the check under the lock; a miss starts the browser acquisition.
UY_SecondCheck(c) ==
    /\ pc[c] = "cache2"
    /\ LET t == get_cached_token("UY", cache, now) IN
       /\ tok' = [tok EXCEPT ![c] = t]
       /\ IF Truthy(t)
          THEN /\ pc' = [pc EXCEPT ![c] = "ret_cache"]
               /\ ret' = [ret EXCEPT ![c] = t]
               /\ token_lock' = Release(c)
          ELSE /\ pc' = [pc EXCEPT ![c] = "browser"]
               /\ UNCHANGED <<ret, token_lock>>
    /\ last' = <<"SecondCheck", c>>
    /\ UNCHANGED <<pvars, market, env, now, ticks, cache, exp, qvars>>

\* The exception leaves with the lock still held (acquire() and release()
\* written out, no with block).
RaiseNoToken_KeepLock(c, err) ==
    /\ pc' = [pc EXCEPT ![c] = "raised"]
    /\ ret' = [ret EXCEPT ![c] = err]
    /\ UNCHANGED <<token_lock, cache>>

\* if not tok: raise RuntimeError(...), and an exception of the browser
\* itself: _get_valid_token is left by the exception, the with block
\* releasing the lock on the way out.
RaiseNoToken(c, err) ==
    /\ pc' = [pc EXCEPT ![c] = "raised"]
    /\ ret' = [ret EXCEPT ![c] = err]
    /\ token_lock' = Release(c)
    /\ UNCHANGED cache

\* _obtain_token_via_playwright ends: a token was captured (exp is the time
\* now plus the fixed offset), none was found (None, None), or page.goto
\* raised (it is not inside a try).
Obtain(c) ==
    /\ pc[c] = "browser"
    /\ \/ \E t \in UpstreamTokens :
             /\ tok' = [tok EXCEPT ![c] = t]
             /\ exp' = [exp EXCEPT ![c] = now + TokenTTL]
             /\ pc' = [pc EXCEPT ![c] = "save"]
             /\ UNCHANGED <<ret, token_lock, cache>>
       \/ /\ tok' = [tok EXCEPT ![c] = None]
          /\ exp' = [exp EXCEPT ![c] = NoExp]
          /\ RaiseNoToken(c, "RuntimeError")
       \/ /\ UNCHANGED <<tok, exp>>
          /\ RaiseNoToken(c, "PlaywrightError")
    /\ last' = <<"Obtain", c>>
    /\ UNCHANGED <<pvars, market, env, now, ticks, qvars>>

\* self._save_token(tok, exp); return tok
Save(c) ==
    /\ pc[c] = "save"
    /\ cache' = save_token(tok[c], exp[c])
    /\ pc' = [pc EXCEPT ![c] = "ret_new"]
    /\ ret' = [ret EXCEPT ![c] = tok[c]]
    /\ token_lock' = Release(c)
    /\ last' = <<"Save", c>>
    /\ UNCHANGED <<pvars, market, env, now, ticks, tok, exp, qvars>>

\* The frame of _get_valid_token is gone: the thread is outside the call.
Leave(c) ==
    /\ pc' = [pc EXCEPT ![c] = "idle"]
    /\ tok' = [tok EXCEPT ![c] = None]
    /\ exp' = [exp EXCEPT ![c] = NoExp]
    /\ ret' = [ret EXCEPT ![c] = None]

\* The caller of _get_valid_token goes on; the thread may call again.
Return(c) ==
    /\ pc[c] \in Returned \cup {"raised"}
    /\ Leave(c)
    /\ last' = <<"Return", c>>
    /\ UNCHANGED <<pvars, market, env, now, ticks, cache, token_lock, qvars>>

\* time.time() moves on.
Advance(steps, bound) ==
    /\ ticks < bound
    /\ \E d \in steps : now' = now + d
    /\ ticks' = ticks + 1
    /\ last' = <<"Tick", NoThread>>
    /\ UNCHANGED <<pvars, market, env, cache, token_lock, pc, tok, exp, ret, qvars>>

Tick == Advance(TickSteps, MaxTicks)

\* Cache files a starting process may find: none, a record without exp, a
\* record that expires one second after the start.
InitFiles == {NoFile, save_token("tk0", NoExp), save_token("tk0", Now0 + 1)}

InitShared ==
    /\ market \in Markets
    /\ env \in EnvValues
    /\ now = Now0
    /\ ticks = 0
    /\ cache \in InitFiles
    /\ token_lock = NoThread
    /\ last = <<"Init", NoThread>>

InitThreads(T) ==
    /\ pc = [c \in T |-> "idle"]
    /\ tok = [c \in T |-> None]
    /\ exp = [c \in T |-> NoExp]
    /\ ret = [c \in T |-> None]

\* No query runs in Spec.
NoQuery ==
    /\ qpc = "none"
    /\ qi = 0
    /\ fut = <<>>
    /\ sent = <<>>
    /\ qres = <<>>

\* No browser session is followed step by step.
NoBrowser ==
    /\ bpc = "none"
    /\ holder = None
    /\ passed = <<>>
    /\ storage = "none"

\* No pure function is under study in Spec and SpecPro.
NoCall ==
    /\ fn = "none"
    /\ arg = <<>>
    /\ res = <<>>

Init == InitShared /\ InitThreads(Callers) /\ NoQuery /\ NoCall /\ NoBrowser

Next ==
    \/ \E c \in Callers : AR_Enter(c)
    \/ \E c \in Callers : UY_Enter(c)
    \/ \E c \in Callers : UY_Lock(c)
    \/ \E c \in Callers : UY_SecondCheck(c)
    \/ \E c \in Callers : Obtain(c)
    \/ \E c \in Callers : Save(c)
    \/ \E c \in Callers : Return(c)
    \/ Tick

Spec == Init /\ [][Next]_vars

\* ------------------------------------------- fetch_day_web_prices_pro
\* The seat classes, in the order the tasks are submitted and joined.
Seats == <<"TSEAT", "BSEAT", "PRSEAT", "ESEAT">>
Workers == 1..Len(Seats)
\* The thread that runs fetch_day_web_prices_pro.
Main == Len(Seats) + 1
ProThreads == Workers \cup {Main}

\* A future: not submitted, running, done with (status, raw), or holding the
\* exception its task raised.
FutWait == [state |-> "wait", st |-> 0, raw |-> <<>>]
FutRunning == [state |-> "running", st |-> 0, raw |-> <<>>]
FutDone(st, raw) == [state |-> "done", st |-> st, raw |-> raw]
FutExc(err) == [state |-> "exc", st |-> 0, raw |-> <<err>>]

\* What the upstream may answer to the call for seat class w: 200 with a
\* JSON body, or a rejection with a JSON body.
HttpAnswers(w) == {FutDone(200, <<Seats[w], "json">>), FutDone(403, <<Seats[w], "rejected">>)}

\* BuquebusClientV2._call_price_availability: the answer, or (500, str(e))
\* when the request or resp.json() raised.
call_price_availability_AR(w) == HttpAnswers(w) \cup {FutDone(500, <<Seats[w], "str(e)">>)}

\* BuquebusClientUYU._call_price_availability: the answer; an exception of
\* the request or of resp.json() is not caught.
call_price_availability_UY(w) == HttpAnswers(w) \cup {FutExc("RequestException")}

\* The calling thread enters _get_valid_token: the call that opens
\* fetch_day_web_prices_pro and, for UY, the one inside each _payload.
Q_Call ==
    /\ qpc \in {"ensure", "payload"}
    /\ \/ AR_Enter(Main)
       \/ UY_Enter(Main)

\* AR: a task runs _post_day_pricing / _post_day_pricing_economica, whose
\* payload calls _get_valid_token in the task's thread.
AR_TaskCall(w) ==
    /\ fut[w].state = "running"
    /\ AR_Enter(w)

\* self._get_valid_token() has returned; its result is dropped.
\* AR: the four tasks are submitted. UY: the first payload is built next.
Q_Ensured ==
    /\ qpc = "ensure"
    /\ pc[Main] \in Returned
    /\ Leave(Main)
    /\ IF market = "AR"
       THEN /\ qpc' = "join"
            /\ fut' = [w \in Workers |-> FutRunning]
       ELSE /\ qpc' = "payload"
            /\ fut' = fut
    /\ last' = <<"Query", NoThread>>
    /\ UNCHANGED <<pvars, market, env, now, ticks, cache, token_lock, qi, sent, qres>>

\* UY: ex.submit(self._call_price_availability, self._payload(...)): the
\* payload, built by the calling thread, holds the token just returned.
UY_Submit ==
    /\ qpc = "payload"
    /\ pc[Main] \in Returned
    /\ sent' = [sent EXCEPT ![qi] = ret[Main]]
    /\ fut' = [fut EXCEPT ![qi] = FutRunning]
    /\ qi' = qi + 1
    /\ qpc' = IF qi = Len(Seats) THEN "join" ELSE "payload"
    /\ Leave(Main)
    /\ last' = <<"Query", NoThread>>
    /\ UNCHANGED <<pvars, market, env, now, ticks, cache, token_lock, qres>>

\* _get_valid_token raised in the calling thread: the exception leaves
\* fetch_day_web_prices_pro once the with block has waited for the tasks.
Q_Raised ==
    /\ qpc \in {"ensure", "payload"}
    /\ pc[Main] = "raised"
    /\ qres' = FutExc(ret[Main])
    /\ qpc' = "unwind"
    /\ Leave(Main)
    /\ last' = <<"Query", NoThread>>
    /\ UNCHANGED <<pvars, market, env, now, ticks, cache, token_lock, qi, fut, sent>>

\* A rejection makes the task delete the cache file.
AR_Task_Invalidate(w) ==
    /\ market = "AR"
    /\ fut[w].state = "running"
    /\ pc[w] \in Returned
    /\ sent' = [sent EXCEPT ![w] = ret[w]]
    /\ \E r \in call_price_availability_AR(w) :
          /\ fut' = [fut EXCEPT ![w] = r]
          /\ cache' = IF r.st = 403 THEN NoFile ELSE cache
    /\ Leave(w)
    /\ last' = <<"Query", NoThread>>
    /\ UNCHANGED <<pvars, market, env, now, ticks, token_lock, qpc, qi, qres>>

\* AR: the task's payload is complete; _call_price_availability returns.
AR_Task(w) ==
    /\ market = "AR"
    /\ fut[w].state = "running"
    /\ pc[w] \in Returned
    /\ sent' = [sent EXCEPT ![w] = ret[w]]
    /\ \E r \in call_price_availability_AR(w) : fut' = [fut EXCEPT ![w] = r]
    /\ Leave(w)
    /\ last' = <<"Query", NoThread>>
    /\ UNCHANGED <<pvars, market, env, now, ticks, cache, token_lock, qpc, qi, qres>>

\* AR: _get_valid_token raised inside the task: the future holds it.
AR_TaskRaised(w) ==
    /\ market = "AR"
    /\ fut[w].state = "running"
    /\ pc[w] = "raised"
    /\ fut' = [fut EXCEPT ![w] = FutExc(ret[w])]
    /\ Leave(w)
    /\ last' = <<"Query", NoThread>>
    /\ UNCHANGED <<pvars, market, env, now, ticks, cache, token_lock, qpc, qi, sent, qres>>

\* A call that was rejected is issued again while the query waits.
UY_Task_Retry(w) ==
    /\ market = "UY"
    /\ \/ fut[w].state = "running"
       \/ fut[w].state = "done" /\ fut[w].st # 200 /\ qpc = "join"
    /\ \E r \in call_price_availability_UY(w) : fut' = [fut EXCEPT ![w] = r]
    /\ last' = <<"Query", NoThread>>
    /\ UNCHANGED <<pvars, market, env, now, ticks, cache, token_lock, pc, tok, exp, ret,
                   qpc, qi, sent, qres>>

\* UY: the task is _call_price_availability alone.
UY_Task(w) ==
    /\ market = "UY"
    /\ fut[w].state = "running"
    /\ \E r \in call_price_availability_UY(w) : fut' = [fut EXCEPT ![w] = r]
    /\ last' = <<"Query", NoThread>>
    /\ UNCHANGED <<pvars, market, env, now, ticks, cache, token_lock, pc, tok, exp, ret,
                   qpc, qi, sent, qres>>

NoneRunning == \A w \in Workers : fut[w].state # "running"

\* The first task, in the order of the fut_x.result() calls, whose future
\* holds an exception (0 when none does).
FirstExc ==
    IF \E w \in Workers : fut[w].state = "exc"
    THEN CHOOSE w \in Workers :
            /\ fut[w].state = "exc"
            /\ \A v \in Workers : fut[v].state = "exc" => w <= v
    ELSE 0

\* The checks in another order: business before tourist.
StatusChecks_AR_BusinessFirst ==
    IF fut[2].st # 200 THEN FutDone(fut[2].st, fut[2].raw)
    ELSE IF fut[1].st # 200 THEN FutDone(fut[1].st, fut[1].raw)
    ELSE IF fut[3].st # 200 THEN FutDone(fut[3].st, fut[3].raw)
    ELSE FutDone(200, <<"results">>)

\* The status checks after the with block.
\* AR: if st_t != 200 / if st_b != 200 / if st_p != 200.
StatusChecks_AR ==
    IF fut[1].st # 200 THEN FutDone(fut[1].st, fut[1].raw)
    ELSE IF fut[2].st # 200 THEN FutDone(fut[2].st, fut[2].raw)
    ELSE IF fut[3].st # 200 THEN FutDone(fut[3].st, fut[3].raw)
    ELSE FutDone(200, <<"results">>)

\* UY: if st_t != 200 alone.
StatusChecks_UY ==
    IF fut[1].st # 200 THEN FutDone(fut[1].st, fut[1].raw)
    ELSE FutDone(200, <<"results">>)

StatusChecks == IF market = "AR" THEN StatusChecks_AR ELSE StatusChecks_UY

\* st_t, raw_t = fut_t.result() ... st_e, raw_e = fut_e.result(), the end of
\* the with block (which waits for every task), and the status checks.
Q_Join ==
    /\ qpc = "join"
    /\ NoneRunning
    /\ qres' = IF FirstExc # 0 THEN FutExc(fut[FirstExc].raw[1]) ELSE StatusChecks
    /\ qpc' = IF FirstExc # 0 THEN "raised" ELSE "returned"
    /\ last' = <<"Query", NoThread>>
    /\ UNCHANGED <<pvars, market, env, now, ticks, cache, token_lock, pc, tok, exp, ret,
                   qi, fut, sent>>

\* The exception of the calling thread's _get_valid_token propagates.
Q_Unwind ==
    /\ qpc = "unwind"
    /\ NoneRunning
    /\ qpc' = "raised"
    /\ last' = <<"Query", NoThread>>
    /\ UNCHANGED <<pvars, market, env, now, ticks, cache, token_lock, pc, tok, exp, ret,
                   qi, fut, sent, qres>>

\* A query lasts seconds (every call in it has a timeout of 30 s), far less
\* than the lifetime given to a token: its clock moves by seconds.
TickPro == Advance({1}, MaxProTicks)

InitPro ==
    /\ InitShared
    /\ InitThreads(ProThreads)
    /\ qpc = "ensure"
    /\ qi = 1
    /\ fut = [w \in Workers |-> FutWait]
    /\ sent = [w \in Workers |-> None]
    /\ qres = FutWait
    /\ NoCall
    /\ NoBrowser

NextPro ==
    \/ Q_Call
    \/ \E w \in Workers : AR_TaskCall(w)
    \/ UY_Lock(Main)
    \/ UY_SecondCheck(Main)
    \/ \E c \in ProThreads : Obtain(c)
    \/ \E c \in ProThreads : Save(c)
    \/ Q_Ensured
    \/ UY_Submit
    \/ Q_Raised
    \/ \E w \in Workers : AR_Task(w)
    \/ \E w \in Workers : AR_TaskRaised(w)
    \/ \E w \in Workers : UY_Task(w)
    \/ Q_Join
    \/ Q_Unwind
    \/ TickPro

SpecPro == InitPro /\ [][NextPro]_vars

\* ====================================================== the claims
\* The stored credential is usable at time t: it has a token and an expiry
\* later than t.
Valid(rec, t) == Truthy(rec.token) /\ rec.exp # NoExp /\ rec.exp > t

\* Thread c has just read the cache file (cache and now are as it read them).
Checked(c) == last = <<"FirstCheck", c>> \/ last = <<"SecondCheck", c>>

\* What _get_valid_token raises.
Errors == {"RuntimeError", "PlaywrightError"}

\* Threads whose browser acquisition is running.
Acquiring == {c \in Threads : pc[c] = "browser"}

\* C1: for every market, at no time are two browser-driven acquisitions
\* (_obtain_token_via_playwright) running simultaneously.
C1_OneAcquisitionAtATime == Cardinality(Acquiring) <= 1

\* C2: callers that find no valid cached credential and no override launch
\* the browser acquisition at most once in total and all return the same
\* token. Stated for the runs the claim is about: no override, the clock
\* has not moved and no acquisition has failed.
C2_SingleFlight ==
    (env = "" /\ now = Now0 /\ \A c \in Threads : pc[c] # "raised") =>
        /\ Cardinality({c \in Threads : pc[c] \in {"browser", "save", "ret_new"}}) <= 1
        /\ \A c, d \in Threads :
              (pc[c] \in Returned /\ pc[d] \in Returned) => ret[c] = ret[d]

\* C3: _get_valid_token never returns an expired credential: a token read
\* from the store is returned only if its stored expiry is strictly later
\* than the time of the check.
C3_NeverExpired ==
    \A c \in Threads :
        (Checked(c) /\ pc[c] = "ret_cache") =>
            /\ cache.exp # NoExp
            /\ cache.exp > now
            /\ ret[c] = cache.token

\* C3's case: a thread has just rejected a stored token whose expiry equals
\* the time of the check.
C3_Witness ==
    \E c \in Threads :
        /\ Checked(c)
        /\ pc[c] \in {"browser", "lock"}
        /\ Truthy(cache.token)
        /\ cache.exp = now

\* C4: a stored credential whose expiry is unset is treated as valid: the
\* store check returns its token and no browser acquisition is launched.
C4_UnsetExpiryIsValid ==
    \A c \in Threads :
        (Checked(c) /\ Truthy(cache.token) /\ cache.exp = NoExp) =>
            (pc[c] = "ret_cache" /\ ret[c] = cache.token)

\* C5: for every market, with BQB_STATIC_TOKEN set and non-empty,
\* _get_valid_token returns the override: no thread consults the store,
\* waits for the lock, launches the browser or writes the store.
C5_OverrideWins ==
    Truthy(env) =>
        \A c \in Threads :
            /\ pc[c] \in {"idle", "ret_env"}
            /\ pc[c] = "ret_env" => ret[c] = Strip(env)

\* C6: a thread that reaches the store check of _get_valid_token while the
\* store holds a non-expired credential returns that credential at once: it
\* neither waits for the lock nor launches an acquisition, whoever holds
\* the lock.
C6_FastPath ==
    \A c \in Threads :
        (last = <<"FirstCheck", c>> /\ Valid(cache, now)) =>
            (pc[c] = "ret_cache" /\ ret[c] = cache.token)

\* C6's case: a thread has just returned the stored credential while another
\* thread holds the lock.
C6_Witness ==
    \E c \in Threads :
        /\ last = <<"FirstCheck", c>>
        /\ pc[c] = "ret_cache"
        /\ token_lock # NoThread
        /\ token_lock # c

\* C7: after an acquisition succeeds at time t the store holds its token
\* with expiry t + 36000; until then every call returns that token and no
\* further acquisition runs; a call that finds the expiry reached goes on
\* to a new acquisition.
C7_Lifetime ==
    \A c \in Threads :
        /\ (last = <<"Obtain", c>> /\ pc[c] = "save") => exp[c] = now + TokenTTL
        /\ (last = <<"Save", c>>) => (cache.token = ret[c] /\ cache.exp = exp[c])
        /\ Valid(cache, now) => pc[c] \notin {"browser", "save"}
        /\ (last = <<"FirstCheck", c>> /\ Valid(cache, now)) =>
              (pc[c] = "ret_cache" /\ ret[c] = cache.token)
        /\ (Checked(c) /\ cache.exp # NoExp /\ cache.exp <= now) =>
              pc[c] \in {"lock", "browser"}

\* C8: when the acquisition yields no token, _get_valid_token ends with an
\* exception, the store is left as it was and the lock is released; what it
\* returns otherwise is never an empty or null credential.
C8_FailureRaises ==
    /\ [](\A c \in Threads :
            /\ pc[c] \in {"ret_cache", "ret_new"} => Truthy(ret[c])
            /\ pc[c] = "raised" => (ret[c] \in Errors /\ token_lock # c))
    /\ [][\A c \in Threads :
            (pc[c] = "browser" /\ pc'[c] = "raised") =>
                (cache' = cache /\ token_lock' # c)]_vars

\* C8's case: after a failed acquisition of one thread, another thread has
\* taken the lock and launched its own.
C8_Witness ==
    \E c, d \in Threads :
        /\ market = "UY"
        /\ pc[c] = "raised"
        /\ pc[d] = "browser"
        /\ token_lock = d

\* C9: no task of fetch_day_web_prices_pro launches a browser acquisition,
\* whatever the clock does during the query.
C9_NoTaskAcquires == \A w \in Workers : pc[w] \notin {"browser", "save"}

\* C10: when the tourist call has returned a status other than 200 and the
\* other three calls have returned, fetch_day_web_prices_pro returns exactly
\* that status and raw body, and no table.
C10_PrimaryFailure ==
    (/\ qpc \in {"returned", "raised"}
     /\ \A w \in Workers : fut[w].state = "done"
     /\ fut[1].st # 200) =>
        (qpc = "returned" /\ qres = FutDone(fut[1].st, fut[1].raw))

\* C10's case: tourist and business both failed, with different bodies, and
\* the tourist one was returned.
C10_Witness ==
    /\ qpc = "returned"
    /\ fut[1].st # 200
    /\ fut[2].st # 200
    /\ fut[2].raw # fut[1].raw
    /\ qres.raw = fut[1].raw

\* The HTTP call for seat class w failed: it returned a status other than
\* 200, or the future holds the exception of the request.
CallFailed(w) ==
    \/ fut[w].state = "done" /\ fut[w].st # 200
    \/ fut[w] = FutExc("RequestException")

\* C11: when the tourist call has succeeded and a call of a secondary class
\* (business, first, economy) has failed with a status other than 200 or a
\* transport error, fetch_day_web_prices_pro still returns 200 with the
\* merged table.
C11_SecondaryDegrades ==
    (/\ qpc \in {"returned", "raised"}
     /\ fut[1].state = "done" /\ fut[1].st = 200
     /\ \A w \in Workers : fut[w].state = "done" \/ CallFailed(w)
     /\ \E w \in Workers : CallFailed(w)) =>
        (qpc = "returned" /\ qres = FutDone(200, <<"results">>))

\* C12: for every market client, _call_price_availability never raises past
\* its boundary: no future holds an exception of the HTTP request or of
\* resp.json().
C12_CallNeverRaises ==
    \A w \in Workers : fut[w] # FutExc("RequestException")

\* ------------------------------------------------- upstream JSON values
\* The values json() hands to the extractors, tagged by their Python type.
\* A str is the sequence of its characters; a dict is a function from its
\* keys; a float is counted in hundredths (PyFloat(150) is 1.5), which is
\* exact for the amounts the API sends in cents. PyRaise is an exception on
\* its way up.
PyNone == [t |-> "None"]
PyStr(s) == [t |-> "str", s |-> s]
PyInt(n) == [t |-> "int", n |-> n]
PyFloat(c) == [t |-> "float", c |-> c]
PyNaN == [t |-> "nan"]
PyList(l) == [t |-> "list", l |-> l]
PyDict(d) == [t |-> "dict", d |-> d]
PyRaise(e) == [t |-> "raise", e |-> e]

\* {} and [] and ""
EmptyDict == PyDict(<<>>)
EmptyList == PyList(<<>>)
EmptyStr == PyStr(<<>>)

\* bool(x)
PyBool(x) ==
    CASE x.t = "None" -> FALSE
      [] x.t = "str" -> Len(x.s) > 0
      [] x.t = "int" -> x.n # 0
      [] x.t = "float" -> x.c # 0
      [] x.t = "list" -> Len(x.l) > 0
      [] x.t = "dict" -> DOMAIN x.d # {}
      [] OTHER -> TRUE

\* x == "literal"
PyEqStr(x, s) == x.t = "str" /\ x.s = s

\* x.get(k, default): an exception in x goes on; a value that is not a dict
\* has no get.
Get(x, k, default) ==
    IF x.t = "raise" THEN x
    ELSE IF x.t = "dict"
         THEN (IF k \in DOMAIN x.d THEN x.d[k] ELSE default)
         ELSE PyRaise("AttributeError")

\* The items a for loop draws from x.
Iter(x) ==
    CASE x.t = "raise" -> x
      [] x.t = "list" -> x
      [] x.t = "str" -> PyList([i \in 1..Len(x.s) |-> PyStr(<<x.s[i]>>)])
      [] x.t = "dict" -> IF DOMAIN x.d = {} THEN EmptyList
                         ELSE PyList(<<PyStr(CHOOSE k \in DOMAIN x.d : TRUE)>>)
      [] OTHER -> PyRaise("TypeError")

\* The first exception in a sequence of values, or PyNone.
RECURSIVE FirstRaise(_)
FirstRaise(vs) ==
    IF vs = <<>> THEN PyNone
    ELSE IF Head(vs).t = "raise" THEN Head(vs) ELSE FirstRaise(Tail(vs))

\* ------------------------------------------------------ text and numbers
Digits == <<"0", "1", "2", "3", "4", "5", "6", "7", "8", "9">>

IsDigit(ch) == \E i \in 1..Len(Digits) : Digits[i] = ch
DigitValue(ch) == (CHOOSE i \in 1..Len(Digits) : Digits[i] = ch) - 1
IsDigits(s) == Len(s) > 0 /\ \A i \in 1..Len(s) : IsDigit(s[i])

\* The number a string of decimal digits denotes.
RECURSIVE Decimal(_)
Decimal(s) ==
    IF s = <<>> THEN 0
    ELSE 10 * Decimal(SubSeq(s, 1, Len(s) - 1)) + DigitValue(s[Len(s)])

\* str.upper() and str.strip(), character by character.
UpperChar(ch) ==
    CASE ch = "n" -> "N"
      [] ch = "a" -> "A"
      [] OTHER -> ch
Upper(s) == [i \in 1..Len(s) |-> UpperChar(s[i])]

RECURSIVE LStrip(_)
LStrip(s) == IF s # <<>> /\ Head(s) = " " THEN LStrip(Tail(s)) ELSE s
RECURSIVE RStrip(_)
RStrip(s) ==
    IF s # <<>> /\ s[Len(s)] = " " THEN RStrip(SubSeq(s, 1, Len(s) - 1)) ELSE s
StripStr(s) == RStrip(LStrip(s))

NA == <<"N", "/", "A">>
NAN == <<"N", "A", "N">>

\* int(s) for a str: optional blanks around decimal digits.
int_str(s) ==
    IF IsDigits(StripStr(s)) THEN PyInt(Decimal(StripStr(s)))
    ELSE PyRaise("ValueError")

\* float(x): decimal digits, or "nan" in any case, with optional blanks
\* around; a number; anything else raises.
float(x) ==
    CASE x.t = "str" ->
            IF IsDigits(StripStr(x.s)) THEN PyFloat(100 * Decimal(StripStr(x.s)))
            ELSE IF Upper(StripStr(x.s)) = NAN THEN PyNaN
            ELSE PyRaise("ValueError")
      [] x.t = "int" -> PyFloat(100 * x.n)
      [] x.t \in {"float", "nan"} -> x
      [] OTHER -> PyRaise("TypeError")

\* f / 100
Div100(f) == IF f.t = "float" THEN PyFloat(f.c \div 100) ELSE f

\* _to_money(v): None, "N/A" and everything int(str(v)) rejects give None.
to_money(v) ==
    CASE v.t = "None" -> PyNone
      [] v.t = "str" ->
            IF Upper(StripStr(v.s)) = NA THEN PyNone
            ELSE IF int_str(v.s).t = "int" THEN PyFloat(int_str(v.s).n)
            ELSE PyNone
      [] v.t = "int" -> PyFloat(v.n)
      [] OTHER -> PyNone

\* ------------------------------------------------------- fare extractors
PROGRAMADA == <<"P", "R", "O", "G", "R", "A", "M", "A", "D", "A">>
ECONOMICA == <<"E", "C", "O", "N", "O", "M", "I", "C", "A">>

\* t.get("c_QOR_QuotationBasisResponse", {})
\*  .get("m_TARF_TariffCodeTypeDescription", {}).get("c_U282_TariffType")
TariffType(t) ==
    Get(Get(Get(t, "c_QOR_QuotationBasisResponse", EmptyDict),
            "m_TARF_TariffCodeTypeDescription", EmptyDict),
        "c_U282_TariffType", PyNone)

\* t.get("c_QLP_ChargesTotal", {}).get("m_CHTO_ChargeTotals", {})
\*  .get("m_U618_TotalAmount")
TotalAmount(t) ==
    Get(Get(Get(t, "c_QLP_ChargesTotal", EmptyDict),
            "m_CHTO_ChargeTotals", EmptyDict),
        "m_U618_TotalAmount", PyNone)

\* if amt and str(amt).upper() != "N/A": the str() of a value that is not a
\* str is never "N/A".
Convertible(amt) == PyBool(amt) /\ ~(amt.t = "str" /\ Upper(amt.s) = NA)

\* The loop over c_TCT_TariffChargesTotals of _totales_programada_por_sailing:
\* the first PROGRAMADA total that converts ends it; one that float() rejects
\* with ValueError resets total_prog and the loop goes on; any other
\* exception is not caught.
RECURSIVE total_programada(_, _, _)
total_programada(l, i, total_prog) ==
    IF i > Len(l) THEN total_prog
    ELSE LET tipo == TariffType(l[i])
             total_str == TotalAmount(l[i])
         IN  IF tipo.t = "raise" THEN tipo
             ELSE IF ~PyEqStr(tipo, PROGRAMADA)
                  THEN total_programada(l, i + 1, total_prog)
             ELSE IF total_str.t = "raise" THEN total_str
             ELSE IF ~Convertible(total_str)
                  THEN total_programada(l, i + 1, total_prog)
             ELSE IF float(total_str).t = "raise"
                  THEN IF float(total_str).e = "ValueError"
                       THEN total_programada(l, i + 1, PyNone)
                       ELSE float(total_str)
             ELSE Div100(float(total_str))

\* The loop of _totales_por_tarifa: the first total of the wanted tariff ends
\* it, converted or not; every exception of float() gives None.
RECURSIVE total_tarifa(_, _, _)
total_tarifa(l, i, tarifa) ==
    IF i > Len(l) THEN PyNone
    ELSE LET tipo == TariffType(l[i])
             amt == TotalAmount(l[i])
         IN  IF tipo.t = "raise" THEN tipo
             ELSE IF ~PyEqStr(tipo, tarifa) THEN total_tarifa(l, i + 1, tarifa)
             ELSE IF amt.t = "raise" THEN amt
             ELSE IF ~Convertible(amt) THEN PyNone
             ELSE IF float(amt).t = "raise" THEN PyNone
             ELSE Div100(float(amt))

\* (hs[:2] + ":" + hs[2:]) if len(hs) == 4 else other. None and numbers
\* have no len(); a list of four items cannot be joined to ":".
FormatTime(hs, other) ==
    CASE hs.t = "raise" -> hs
      [] hs.t = "str" ->
            IF Len(hs.s) = 4
            THEN PyStr(SubSeq(hs.s, 1, 2) \o <<":">> \o SubSeq(hs.s, 3, 4))
            ELSE other
      [] hs.t = "list" -> IF Len(hs.l) = 4 THEN PyRaise("TypeError") ELSE other
      [] OTHER -> PyRaise("TypeError")

\* What one sailing adds to the map: nothing, an exception, or out[code]
\* (the sailing codes of the model are strings; a list or a dict cannot be a
\* key).
Skip == [t |-> "skip"]
Entry(code, total, hs, ha, ship) ==
    IF FirstRaise(<<hs, ha, ship>>).t = "raise" THEN FirstRaise(<<hs, ha, ship>>)
    ELSE IF code.t # "str" THEN PyRaise("TypeError")
    ELSE [t |-> "entry", code |-> code.s,
          v |-> [total |-> total, hs |-> hs, ha |-> ha, ship |-> ship]]

\* The loop over the tariff totals of one sailing: that of
\* _totales_por_tarifa for a tariff, that of
\* _totales_programada_por_sailing (which takes no tariff) for None.
Totals(l, tarifa) ==
    IF tarifa = None THEN total_programada(l, 1, PyNone) ELSE total_tarifa(l, 1, tarifa)

\* The body of the loop over the sailings. other is the time of a sailing
\* whose time code has not four characters.
Sailing(s, tarifa, other) ==
    LET r == Get(s, "c_RDR_RouteDateTimeResponse", EmptyDict)
        travel == Get(r, "m_ROUT_TravelRoute", EmptyDict)
        dep == Get(r, "m_DPDT_DepartureDateAndTime", EmptyDict)
        arr == Get(r, "c_ARDT_ArrivalDateAndTime", EmptyDict)
        ship == Get(r, "c_SHNM_ShipName", EmptyDict)
        code == Get(travel, "c_C276_SailingCode", PyNone)
        tct == Iter(Get(s, "c_TCT_TariffChargesTotals", EmptyList))
        total == IF tct.t = "raise" THEN tct ELSE Totals(tct.l, tarifa)
        early == FirstRaise(<<r, travel, dep, arr, ship, code, total>>)
    IN  IF early.t = "raise" THEN early
        ELSE IF PyBool(code) /\ total.t # "None"
             THEN Entry(code, total,
                        FormatTime(Get(dep, "m_U248_StandardDepartureTime", EmptyStr), other),
                        FormatTime(Get(arr, "c_U239_NominalArrivalTime", EmptyStr), other),
                        Get(ship, "m_SHNM_ShipName", PyNone))
             ELSE Skip

\* for s in sailings: ... out[code] = (...); a later sailing of the same
\* code replaces the earlier one.
RECURSIVE Sailings(_, _, _, _, _)
Sailings(l, i, out, tarifa, other) ==
    IF i > Len(l) THEN PyDict(out)
    ELSE LET e == Sailing(l[i], tarifa, other)
         IN  IF e.t = "raise" THEN e
             ELSE IF e.t = "skip" THEN Sailings(l, i + 1, out, tarifa, other)
             ELSE Sailings(l, i + 1, (e.code :> e.v) @@ out, tarifa, other)

\* BuquebusClient._totales_programada_por_sailing(raw_json)
totales_programada_por_sailing(raw_json) ==
    LET data == Get(raw_json, "data", raw_json)
        sailings == Iter(Get(data, "sailingprice", EmptyList))
    IN  IF sailings.t = "raise" THEN sailings
        ELSE Sailings(sailings.l, 1, <<>>, None, EmptyStr)

\* BuquebusClientV2._totales_por_tarifa(raw_json, tarifa)
totales_por_tarifa(raw_json, tarifa) ==
    LET payload == IF Get(raw_json, "data", PyNone).t = "dict"
                   THEN Get(raw_json, "data", PyNone) ELSE raw_json
        sailings == Iter(Get(payload, "sailingprice", EmptyList))
    IN  IF raw_json.t # "dict" THEN EmptyDict
        ELSE IF sailings.t = "raise" THEN sailings
        ELSE Sailings(sailings.l, 1, <<>>, tarifa, PyNone)

\* ------------------------------------------------ upstream response bodies
\* Sailings in one response body.
MaxSailings == 2

\* The key is not in the dict.
Missing == [t |-> "missing"]
Field(k, v) == IF v.t = "missing" THEN <<>> ELSE k :> v

\* One item of c_TCT_TariffChargesTotals, from its two blocks.
TotalJson(qor, qlp) ==
    PyDict(Field("c_QOR_QuotationBasisResponse", qor)
           @@ Field("c_QLP_ChargesTotal", qlp))
Qor(tipo) ==
    PyDict("m_TARF_TariffCodeTypeDescription" :> PyDict(Field("c_U282_TariffType", tipo)))
Qlp(amt) ==
    PyDict("m_CHTO_ChargeTotals" :> PyDict(Field("m_U618_TotalAmount", amt)))
Total(tipo, amt) == TotalJson(Qor(PyStr(tipo)), Qlp(amt))

\* One item of sailingprice, from its blocks.
RouteJson(travel, dep, arr, ship) ==
    PyDict(Field("m_ROUT_TravelRoute", travel)
           @@ Field("m_DPDT_DepartureDateAndTime", dep)
           @@ Field("c_ARDT_ArrivalDateAndTime", arr)
           @@ Field("c_SHNM_ShipName", ship))
SailingJson(rdr, tct) ==
    PyDict(Field("c_RDR_RouteDateTimeResponse", rdr)
           @@ Field("c_TCT_TariffChargesTotals", tct))
Travel(code) == PyDict(Field("c_C276_SailingCode", code))
Dep(hs) == PyDict(Field("m_U248_StandardDepartureTime", hs))
Arr(ha) == PyDict(Field("c_U239_NominalArrivalTime", ha))
Ship(name) == PyDict(Field("m_SHNM_ShipName", name))

\* Values of m_U618_TotalAmount: absent, null, the sentinel in both cases,
\* text, cents as a string and as a number, a nested value.
AmountValues ==
    {Missing, PyNone, PyStr(NA), PyStr(<<"n", "/", "a">>), PyStr(<<"1", "x">>),
     PyStr(<<"1", "5", "0", "0", "0", "0">>), PyStr(<<"0">>),
     PyStr(<<"n", "a", "n">>), PyInt(150000), PyList(<<PyStr(<<"1">>)>>)}

Cents1000 == PyStr(<<"1", "0", "0", "0", "0", "0">>)
Cents800 == PyStr(<<"8", "0", "0", "0", "0">>)

\* Values of c_TCT_TariffChargesTotals: absent, null, no total, one total,
\* a total followed by a good one of the same tariff, a total with a block
\* that is null.
Tariffs == {PROGRAMADA, ECONOMICA}
TctValues ==
    {Missing, PyNone, EmptyList}
    \cup {PyList(<<Total(tf, a)>>) : tf \in Tariffs, a \in AmountValues}
    \cup {PyList(<<Total(tf, a), Total(tf, Cents1000)>>) :
             tf \in Tariffs,
             a \in {PyStr(NA), PyStr(<<"1", "x">>), PyStr(<<"0">>),
                    PyList(<<PyStr(<<"1">>)>>)}}
    \cup {PyList(<<TotalJson(PyNone, Qlp(Cents1000))>>),
          PyList(<<TotalJson(PyDict("m_TARF_TariffCodeTypeDescription" :> PyNone),
                             Qlp(Cents1000))>>)}
    \cup {PyList(<<TotalJson(Qor(PyStr(tf)), q)>>) :
             tf \in Tariffs, q \in {PyNone, PyDict("m_CHTO_ChargeTotals" :> PyNone)}}

S1 == <<"S", "1">>
S2 == <<"S", "2">>
CodeValues == {Missing, PyNone, EmptyStr, PyStr(S1), PyStr(S2)}
TimeValues ==
    {Missing, PyNone, EmptyStr, PyStr(<<"8", "3", "0">>), PyStr(<<"0", "8", "3", "0">>),
     PyStr(<<"8", ":", "3", "0">>), PyStr(<<"0", "8", "3", "0", "0">>)}
ShipNames == {Missing, PyStr(<<"A">>)}

\* The totals of a complete sailing.
BothTariffs == PyList(<<Total(PROGRAMADA, Cents1000), Total(ECONOMICA, Cents800)>>)

\* Any one sailing: null; each block of the route a dict, null or absent,
\* with and without totals; every value of the totals on a complete route.
AnySailing ==
    {PyNone, SailingJson(PyNone, BothTariffs), SailingJson(Missing, BothTariffs)}
    \cup {SailingJson(RouteJson(travel, dep, arr, ship), tct) :
             travel \in {PyNone, Missing} \cup {Travel(c) : c \in CodeValues},
             dep \in {PyNone, Missing} \cup {Dep(hs) : hs \in TimeValues},
             arr \in {PyNone, Arr(PyStr(<<"0", "9", "4", "5">>))},
             ship \in {PyNone} \cup {Ship(n) : n \in ShipNames},
             tct \in {BothTariffs, EmptyList}}
    \cup {SailingJson(RouteJson(Travel(PyStr(S1)), Dep(PyStr(<<"0", "8", "3", "0">>)),
                                Arr(PyStr(<<"0", "9", "4", "5">>)), Ship(PyStr(<<"A">>))),
                      tct) : tct \in TctValues}

\* A complete sailing with both tariffs.
Plain(code, hs) ==
    SailingJson(RouteJson(Travel(PyStr(code)), Dep(PyStr(hs)),
                          Arr(PyStr(<<"1", "1", "0", "0">>)), Ship(PyStr(<<"B">>))),
                BothTariffs)
PlainSailings ==
    {Plain(S1, <<"0", "8", "3", "0">>), Plain(S1, <<"1", "0", "0", "0">>),
     Plain(S2, <<"1", "0", "0", "0">>)}

\* A list of n sailings: s at place k among the complete ones of f.
SailingList(n, k, s, f) == PyList([i \in 1..n |-> IF i = k THEN s ELSE f[i]])

\* Response bodies: the list at the top, or inside "data".
Body(l) == PyDict("sailingprice" :> l)
DataBody(l) == PyDict("data" :> Body(l))

\* Bodies of another shape.
OtherBodies ==
    {PyNone, EmptyDict, EmptyList, PyStr(<<"e">>),
     Body(PyNone), PyDict("data" :> PyNone), DataBody(PyNone),
     PyDict(("data" :> PyNone) @@ ("sailingprice" :> PyList(<<Plain(S1, <<"0", "8", "3", "0">>)>>)))}

\* ------------------------------------------------------------ SpecExtract
\* No client runs while a pure function is under study.
NoClient ==
    /\ market = "AR"
    /\ env = ""
    /\ now = Now0
    /\ ticks = 0
    /\ cache = NoFile
    /\ token_lock = NoThread
    /\ last = <<"Init", NoThread>>
    /\ InitThreads({})
    /\ NoQuery
    /\ NoBrowser

\* mapa = self._totales_programada_por_sailing(raw)
Programada ==
    /\ fn = "input"
    /\ fn' = "_totales_programada_por_sailing"
    /\ res' = [tarifa |-> PROGRAMADA, out |-> totales_programada_por_sailing(arg)]
    /\ UNCHANGED <<arg, bvars, gvars, qvars>>

\* mapa = self._totales_por_tarifa(raw, tarifa)
PorTarifa ==
    /\ fn = "input"
    /\ fn' = "_totales_por_tarifa"
    /\ \E tarifa \in Tariffs :
          res' = [tarifa |-> tarifa, out |-> totales_por_tarifa(arg, tarifa)]
    /\ UNCHANGED <<arg, bvars, gvars, qvars>>

InitExtract ==
    /\ NoClient
    /\ fn = "input"
    /\ res = <<>>
    /\ \/ arg \in OtherBodies
       \/ \E n \in 1..MaxSailings, k \in 1..MaxSailings :
             /\ k <= n
             /\ \E s \in AnySailing, f \in [1..n -> PlainSailings] :
                   arg = Body(SailingList(n, k, s, f))
       \/ \E f \in [1..MaxSailings -> PlainSailings] :
             arg = DataBody(PyList(f))

NextExtract ==
    \/ Programada
    \/ PorTarifa

SpecExtract == InitExtract /\ [][NextExtract]_vars

\* ------------------------------------------------- claims on the extractors
\* An extractor has been applied to arg.
Extracted == fn \in {"_totales_programada_por_sailing", "_totales_por_tarifa"}

\* The response as the specification reads it: the value under a key of an
\* object (null when there is none), the items of a list (none when it is
\* not a list).
Lookup(x, k) == IF x.t = "dict" /\ k \in DOMAIN x.d THEN x.d[k] ELSE PyNone
ItemsOf(x) == IF x.t = "list" THEN x.l ELSE <<>>

\* The sailings of a response body.
BodySailings(raw) ==
    ItemsOf(Lookup(IF Lookup(raw, "data").t = "dict" THEN Lookup(raw, "data") ELSE raw,
                   "sailingprice"))

SailingCode(s) ==
    Lookup(Lookup(Lookup(s, "c_RDR_RouteDateTimeResponse"), "m_ROUT_TravelRoute"),
           "c_C276_SailingCode")

\* An amount in cents: a string of decimal digits, or a number.
Numeric(v) == (v.t = "str" /\ IsDigits(v.s)) \/ v.t = "int"

\* Sailing s has a tariff-total of the given label whose amount is numeric.
HasNumericTotal(s, tarifa) ==
    \E i \in 1..Len(ItemsOf(Lookup(s, "c_TCT_TariffChargesTotals"))) :
        LET t == ItemsOf(Lookup(s, "c_TCT_TariffChargesTotals"))[i] IN
        /\ PyEqStr(Lookup(Lookup(Lookup(t, "c_QOR_QuotationBasisResponse"),
                                 "m_TARF_TariffCodeTypeDescription"),
                          "c_U282_TariffType"), tarifa)
        /\ Numeric(Lookup(Lookup(Lookup(t, "c_QLP_ChargesTotal"),
                                 "m_CHTO_ChargeTotals"),
                          "m_U618_TotalAmount"))

\* C13: every entry of an extractor's output map has a non-empty sailing
\* code and a non-null amount, and belongs to a sailing of the response that
\* has a tariff-total of the requested label with a numeric amount: a
\* sailing without one is not in the map.
C13_OmissionRule ==
    (Extracted /\ res.out.t = "dict") =>
        \A code \in DOMAIN res.out.d :
            /\ Len(code) > 0
            /\ res.out.d[code].total.t # "None"
            /\ \E i \in 1..Len(BodySailings(arg)) :
                  /\ PyEqStr(SailingCode(BodySailings(arg)[i]), code)
                  /\ HasNumericTotal(BodySailings(arg)[i], res.tarifa)

\* The time code of a sailing, under the key of the block blk.
TimeCode(s, blk, key) ==
    Lookup(Lookup(Lookup(s, "c_RDR_RouteDateTimeResponse"), blk), key)

\* The time field a time code is to give: HH:MM for exactly four digits,
\* nothing for every other value.
HHMM(v) ==
    IF v.t = "str" /\ Len(v.s) = 4 /\ IsDigits(v.s)
    THEN PyStr(SubSeq(v.s, 1, 2) \o <<":">> \o SubSeq(v.s, 3, 4))
    ELSE PyNone

\* v is the value want, both being empty when want is.
SameText(v, want) == IF want.t = "str" THEN (v.t = "str" /\ v.s = want.s) ELSE ~PyBool(v)

\* C25: in both fare extractors the departure and the arrival time of an
\* entry are HH:MM only when the time code of its sailing is exactly four
\* digits; for every other code (shorter, longer, with other characters,
\* missing) the time field of the entry is empty.
C25_TimeFormat ==
    (Extracted /\ res.out.t = "dict") =>
        \A code \in DOMAIN res.out.d :
            \E i \in 1..Len(BodySailings(arg)) :
                LET s == BodySailings(arg)[i] IN
                /\ PyEqStr(SailingCode(s), code)
                /\ SameText(res.out.d[code].hs,
                            HHMM(TimeCode(s, "m_DPDT_DepartureDateAndTime",
                                          "m_U248_StandardDepartureTime")))
                /\ SameText(res.out.d[code].ha,
                            HHMM(TimeCode(s, "c_ARDT_ArrivalDateAndTime",
                                          "c_U239_NominalArrivalTime")))

\* C14: the fare extractors never raise: whatever field of the response is
\* missing, null or of another type, they return a mapping.
C14_ExtractorsNeverRaise == Extracted => res.out.t = "dict"

\* -------------------------------------------------------------- SpecMoney
\* Characters of an amount string.
MaxChars == 3

\* The characters amounts are written with: digits, and those of the
\* sentinel in both cases.
AmountChars == {"0", "1", "5", "N", "/", "A", "n", "a"}

\* Values that are not strings: null, numbers, nested values.
OtherAmounts ==
    {PyNone, PyInt(0), PyInt(150), EmptyList, PyList(<<PyStr(<<"1">>)>>), EmptyDict,
     PyDict("a" :> PyInt(1))}

\* A response with the one sailing S1, whose one tariff-total has the given
\* label and amount.
OneSailing(tarifa, amt) ==
    Body(PyList(<<SailingJson(RouteJson(Travel(PyStr(S1)), Dep(PyStr(<<"0", "8", "3", "0">>)),
                                        Arr(PyStr(<<"0", "9", "4", "5">>)), Ship(PyStr(<<"A">>))),
                              PyList(<<Total(tarifa, amt)>>))>>))

\* The amount S1 has in what an extractor returned: the value, None when S1
\* is not in the map, the exception when the extractor raised.
AmountOf(out) ==
    IF out.t = "raise" THEN out
    ELSE IF S1 \in DOMAIN out.d THEN out.d[S1].total ELSE PyNone

\* _to_money(v)
ToMoney ==
    /\ fn = "value"
    /\ fn' = "_to_money"
    /\ res' = to_money(arg)
    /\ UNCHANGED <<arg, bvars, gvars, qvars>>

\* The conversion inside _totales_programada_por_sailing.
InlineProgramada ==
    /\ fn = "value"
    /\ fn' = "_totales_programada_por_sailing"
    /\ res' = AmountOf(totales_programada_por_sailing(OneSailing(PROGRAMADA, arg)))
    /\ UNCHANGED <<arg, bvars, gvars, qvars>>

\* The conversion inside _totales_por_tarifa.
InlineTarifa ==
    /\ fn = "value"
    /\ fn' = "_totales_por_tarifa"
    /\ res' = AmountOf(totales_por_tarifa(OneSailing(ECONOMICA, arg), ECONOMICA))
    /\ UNCHANGED <<arg, bvars, gvars, qvars>>

InitMoney ==
    /\ NoClient
    /\ fn = "value"
    /\ res = <<>>
    /\ \/ arg \in OtherAmounts
       \/ \E n \in 0..MaxChars : \E s \in [1..n -> AmountChars] : arg = PyStr(s)

NextMoney ==
    \/ ToMoney
    \/ InlineProgramada
    \/ InlineTarifa

SpecMoney == InitMoney /\ [][NextMoney]_vars

\* A conversion has been applied to the value arg.
Converted == fn \in {"_to_money", "_totales_programada_por_sailing", "_totales_por_tarifa"}

\* C15: money conversion, in _to_money and inline in both extractors: a
\* string of decimal digits denoting n cents converts to n/100; "N/A" and
\* every value that is not numeric convert to absent, never to an amount
\* and never to an exception.
C15_MoneyConversion ==
    Converted =>
        /\ (arg.t = "str" /\ IsDigits(arg.s)) =>
              (res.t = "float" /\ res.c = Decimal(arg.s))
        /\ ~Numeric(arg) => res.t = "None"

\* ------------------------------------------- the table of the pro query
\* Code points of the characters that sailing codes and times are compared
\* by, in ascending order.
CodePoints ==
    <<"0", "1", "2", "3", "4", "5", "6", "7", "8", "9", ":", "A", "B", "E", "P",
      "S", "T">>
Ord(ch) == CHOOSE i \in 1..Len(CodePoints) : CodePoints[i] = ch

\* a < b and a <= b for two str.
RECURSIVE StrLess(_, _)
StrLess(a, b) ==
    IF b = <<>> THEN FALSE
    ELSE IF a = <<>> THEN TRUE
    ELSE IF Head(a) = Head(b) THEN StrLess(Tail(a), Tail(b))
    ELSE Ord(Head(a)) < Ord(Head(b))
StrLeq(a, b) == a = b \/ StrLess(a, b)

\* sorted(keys): the strings of a set in ascending order.
RECURSIVE sorted(_)
sorted(S) ==
    IF S = {} THEN <<>>
    ELSE LET m == CHOOSE x \in S : \A y \in S : StrLeq(x, y)
         IN  <<m>> \o sorted(S \ {m})

\* a or b
PyOr(a, b) == IF PyBool(a) THEN a ELSE b

\* bus - tur
Minus(a, b) ==
    IF a.t = "nan" \/ b.t = "nan" THEN PyNaN ELSE PyFloat(a.c - b.c)

\* The decimal digits of a natural number.
RECURSIVE DigitsOf(_)
DigitsOf(n) ==
    IF n < 10 THEN <<Digits[n + 1]>>
    ELSE DigitsOf(n \div 10) \o <<Digits[(n % 10) + 1]>>

\* f"{v:,.2f}" with "," and "." exchanged: groups of three digits divided by
\* ".", then "," and two decimals.
RECURSIVE Grouped(_)
Grouped(n) ==
    IF n < 1000 THEN DigitsOf(n)
    ELSE Grouped(n \div 1000) \o <<".">>
         \o <<Digits[((n \div 100) % 10) + 1], Digits[((n \div 10) % 10) + 1],
              Digits[(n % 10) + 1]>>

Abs(n) == IF n < 0 THEN 0 - n ELSE n

\* fmt(v) of fetch_day_web_prices_pro, for the currency of the market.
fmt(cur, v) ==
    CASE v.t = "None" -> PyNone
      [] v.t = "nan" -> PyStr(cur \o <<" ", "n", "a", "n">>)
      [] OTHER ->
            PyStr(cur \o <<" ">> \o (IF v.c < 0 THEN <<"-">> ELSE <<>>)
                  \o Grouped(Abs(v.c) \div 100) \o <<",">>
                  \o <<Digits[((Abs(v.c) \div 10) % 10) + 1], Digits[(Abs(v.c) % 10) + 1]>>)

Currency(m) == IF m = "AR" THEN <<"A", "R", "S">> ELSE <<"U", "Y", "U">>

\* mapa.get(code, (None, None, None, None))
NoEntry(other) == [total |-> PyNone, hs |-> other, ha |-> other, ship |-> PyNone]
MapGet(mapa, code, other) ==
    IF code \in DOMAIN mapa.d THEN mapa.d[code] ELSE NoEntry(other)

\* The record of one sailing code in fetch_day_web_prices_pro.
ProRecord(cur, code, mapa_t, mapa_b, mapa_p, mapa_e) ==
    LET t == MapGet(mapa_t, code, PyNone)
        b == MapGet(mapa_b, code, PyNone)
        p == MapGet(mapa_p, code, PyNone)
        e == MapGet(mapa_e, code, PyNone)
        diff == IF PyBool(b.total) /\ PyBool(t.total)
                THEN Minus(b.total, t.total) ELSE PyNone
    IN  [hora_salida |-> PyOr(t.hs, e.hs),
         hora_llegada |-> PyOr(t.ha, e.ha),
         barco |-> PyOr(t.ship, PyOr(b.ship, PyOr(p.ship, e.ship))),
         codigo |-> code,
         turista |-> fmt(cur, t.total),
         business |-> fmt(cur, b.total),
         diferencia |-> fmt(cur, diff),
         economica |-> fmt(cur, e.total),
         primera |-> fmt(cur, p.total)]

\* The record of one sailing code in fetch_day_web_prices: its fmt has no
\* test for None, the callers test the truth of the value.
WebRecord(cur, code, mapa_t, mapa_b) ==
    LET t == MapGet(mapa_t, code, EmptyStr)
        b == MapGet(mapa_b, code, EmptyStr)
        diff == IF PyBool(b.total) /\ PyBool(t.total)
                THEN Minus(b.total, t.total) ELSE PyNone
    IN  [hora_salida |-> t.hs,
         hora_llegada |-> t.ha,
         barco |-> PyOr(t.ship, b.ship),
         codigo |-> code,
         turista |-> IF PyBool(t.total) THEN fmt(cur, t.total) ELSE PyNone,
         business |-> IF PyBool(b.total) THEN fmt(cur, b.total) ELSE PyNone,
         diferencia |-> IF PyBool(diff) THEN fmt(cur, diff) ELSE PyNone]

\* The default of the key is the empty string: unknown times sort first.
SortKey_EmptyDefault(x) == PyOr(x.hora_salida, EmptyStr).s

\* x["hora_salida"] or "99:99"
SortKey(x) == PyOr(x.hora_salida, PyStr(<<"9", "9", ":", "9", "9">>)).s

\* results.sort(key=...): a stable sort; x goes behind the records of l whose
\* key is not greater.
RECURSIVE Insert(_, _)
Insert(l, x) ==
    IF l = <<>> THEN <<x>>
    ELSE IF StrLess(SortKey(x), SortKey(l[Len(l)]))
         THEN Insert(SubSeq(l, 1, Len(l) - 1), x) \o <<l[Len(l)]>>
         ELSE l \o <<x>>
RECURSIVE sort(_, _)
sort(l, i) ==
    IF i = 0 THEN <<>> ELSE Insert(sort(l, i - 1), l[i])

\* mapa_t ... mapa_e of fetch_day_web_prices_pro: the four extractions.
Mapas(raw, st_e) ==
    [t |-> totales_programada_por_sailing(raw.t),
     b |-> totales_programada_por_sailing(raw.b),
     p |-> totales_programada_por_sailing(raw.p),
     e |-> IF st_e = 200 THEN totales_por_tarifa(raw.e, ECONOMICA) ELSE EmptyDict]

\* The union of the keys leaves the economy map out.
MergedCodes_NoEconomy(m) ==
    sorted(DOMAIN m.t.d \cup DOMAIN m.b.d \cup DOMAIN m.p.d)

\* sorted(set(mapa_t) | set(mapa_b) | set(mapa_p) | set(mapa_e))
MergedCodes(m) ==
    sorted(DOMAIN m.t.d \cup DOMAIN m.b.d \cup DOMAIN m.p.d \cup DOMAIN m.e.d)

\* results.sort(key=lambda x: x["hora_salida"] or "99:99")
Sorted(results) == sort(results, Len(results))

\* for code in sorted(...): results.append({...})
ProRecords(cur, m, codes) ==
    [i \in 1..Len(codes) |-> ProRecord(cur, codes[i], m.t, m.b, m.p, m.e)]

\* What fetch_day_web_prices_pro returns for the four maps: one record per
\* sailing code in the order of the codes, sorted by departure time, with
\* 200. An exception of an extractor leaves it.
ProTable(cur, m) ==
    IF FirstRaise(<<m.t, m.b, m.p, m.e>>).t = "raise"
    THEN FirstRaise(<<m.t, m.b, m.p, m.e>>)
    ELSE [t |-> "return", st |-> 200,
          results |-> Sorted(ProRecords(cur, m, MergedCodes(m)))]

\* fetch_day_web_prices_pro after the status checks.
Table(cur, raw, st_e) == ProTable(cur, Mapas(raw, st_e))

\* mapa_t and mapa_b of fetch_day_web_prices.
WebMapas(raw) ==
    [t |-> totales_programada_por_sailing(raw.t),
     b |-> totales_programada_por_sailing(raw.b)]

\* for code in sorted(set(mapa_t) | set(mapa_b)): items.append({...})
WebRecords(m, codes) ==
    [i \in 1..Len(codes) |-> WebRecord(Currency("AR"), codes[i], m.t, m.b)]

\* What fetch_day_web_prices returns for the two maps: tourist and business
\* only, in the order of the codes.
WebItems(m) ==
    IF FirstRaise(<<m.t, m.b>>).t = "raise"
    THEN FirstRaise(<<m.t, m.b>>)
    ELSE [t |-> "return", st |-> 200,
          results |-> WebRecords(m, sorted(DOMAIN m.t.d \cup DOMAIN m.b.d))]

\* fetch_day_web_prices after its status checks.
WebTable(raw) == WebItems(WebMapas(raw))

\* -------------------------------------------------------------- SpecMerge
\* Sailing codes in the responses of one query.
MaxCodes == 2

\* The i-th sailing code.
Code(i) == <<"S", Digits[i + 1]>>

\* The sailing of one seat class's response: its code, its one tariff-total,
\* its times (both there or both absent) and its vessel.
ClassSailing(code, tarifa, amt, times, ship) ==
    SailingJson(RouteJson(Travel(PyStr(code)), Dep(times[1]), Arr(times[2]), Ship(ship)),
                PyList(<<Total(tarifa, amt)>>))

NoTimes == <<Missing, Missing>>
Times0830 == <<PyStr(<<"0", "8", "3", "0">>), PyStr(<<"0", "9", "4", "5">>)>>
Times0845 == <<PyStr(<<"0", "8", "4", "5">>), PyStr(<<"1", "0", "0", "0">>)>>
Times0900 == <<PyStr(<<"0", "9", "0", "0">>), PyStr(<<"1", "0", "1", "5">>)>>
Times1000 == <<PyStr(<<"1", "0", "0", "0">>), PyStr(<<"1", "1", "1", "5">>)>>
Cents0 == PyStr(<<"0">>)
Cents1500 == PyStr(<<"1", "5", "0", "0", "0", "0">>)

\* What the four responses hold for one sailing code: for each seat class a
\* sailing, or Missing when the class does not sell it.
Row(t, b, p, e) == [t |-> t, b |-> b, p |-> p, e |-> e]

\* Any row of a code: tourist with or without times and vessel and with an
\* amount that may be zero, business at another time with a smaller, equal
\* or greater amount, first class, economy with or without times.
AnyRows(c) ==
    {Row(t, b, p, e) :
        t \in {Missing} \cup
              {ClassSailing(c, PROGRAMADA, a, ts, s) :
                  a \in {Cents0, Cents1000}, ts \in {NoTimes, Times0830, Times1000},
                  s \in {Missing, PyStr(<<"T">>)}},
        b \in {Missing} \cup
              {ClassSailing(c, PROGRAMADA, a, Times0845, s) :
                  a \in {Cents0, Cents1000, Cents1500}, s \in {Missing, PyStr(<<"B">>)}},
        p \in {Missing, ClassSailing(c, PROGRAMADA, Cents1500, Times0845, PyStr(<<"P">>))},
        e \in {Missing} \cup
              {ClassSailing(c, ECONOMICA, Cents800, ts, PyStr(<<"E">>)) :
                  ts \in {NoTimes, Times0900}}}

\* The rows of the other codes: tourist alone, business alone (no time
\* known), economy alone.
PlainRows(c) ==
    <<Row(ClassSailing(c, PROGRAMADA, Cents1000, Times0900, PyStr(<<"T">>)),
          Missing, Missing, Missing),
      Row(Missing, ClassSailing(c, PROGRAMADA, Cents1500, Times0845, PyStr(<<"B">>)),
          Missing, Missing),
      Row(Missing, Missing, Missing,
          ClassSailing(c, ECONOMICA, Cents800, Times1000, PyStr(<<"E">>)))>>

Present(s) == s.t # "missing"

\* The four response bodies for the rows of the codes, in their order.
Raws(rows) ==
    [t |-> Body(PyList(SelectSeq([i \in 1..Len(rows) |-> rows[i].t], Present))),
     b |-> Body(PyList(SelectSeq([i \in 1..Len(rows) |-> rows[i].b], Present))),
     p |-> Body(PyList(SelectSeq([i \in 1..Len(rows) |-> rows[i].p], Present))),
     e |-> Body(PyList(SelectSeq([i \in 1..Len(rows) |-> rows[i].e], Present)))]

\* The economy call: 200 with its body, or a rejection with the body of an
\* error, when no row has an economy sailing.
ErrorBody == PyDict("message" :> PyStr(<<"E">>))
EconomyAnswers(raw) ==
    {[raw |-> raw, st_e |-> 200]}
    \cup (IF raw.e = Body(EmptyList)
          THEN {[raw |-> [raw EXCEPT !.e = ErrorBody], st_e |-> 403]}
          ELSE {})

\* fetch_day_web_prices_pro, from mapa_t = ... to return 200, results
Merge ==
    /\ fn = "responses"
    /\ fn' = "fetch_day_web_prices_pro"
    /\ res' = Table(Currency(market), arg.raw, arg.st_e)
    /\ UNCHANGED <<arg, bvars, gvars, qvars>>

\* fetch_day_web_prices, on the tourist and business responses
MergeWeb ==
    /\ fn = "responses"
    /\ fn' = "fetch_day_web_prices"
    /\ res' = WebTable(arg.raw)
    /\ UNCHANGED <<arg, bvars, gvars, qvars>>

InitMerge ==
    /\ market \in Markets
    /\ env = ""
    /\ now = Now0
    /\ ticks = 0
    /\ cache = NoFile
    /\ token_lock = NoThread
    /\ last = <<"Init", NoThread>>
    /\ InitThreads({})
    /\ NoQuery
    /\ NoBrowser
    /\ fn = "responses"
    /\ res = <<>>
    /\ \E n \in 1..MaxCodes, k \in 1..MaxCodes :
          /\ k <= n
          /\ \E r \in AnyRows(Code(k)), f \in [(1..n) \ {k} -> 1..Len(PlainRows(S1))] :
                arg \in EconomyAnswers(
                           Raws([i \in 1..n |->
                                    IF i = k THEN r ELSE PlainRows(Code(i))[f[i]]]))

NextMerge ==
    \/ Merge
    \/ MergeWeb

SpecMerge == InitMerge /\ [][NextMerge]_vars

\* ------------------------------------------------- claims on the table
\* fetch_day_web_prices_pro has returned its table for the responses arg.
Merged == fn = "fetch_day_web_prices_pro" /\ res.t = "return"

\* The per-class mappings the table was merged from.
ClassMaps == Mapas(arg.raw, arg.st_e)

\* What a class's mapping holds for a code (nothing when the code is not a
\* key of it).
EntryOf(mapa, code) ==
    IF code \in DOMAIN mapa.d THEN mapa.d[code]
    ELSE [total |-> PyNone, hs |-> PyNone, ha |-> PyNone, ship |-> PyNone]

\* The first non-empty value of a sequence, None when all are empty.
RECURSIVE FirstNonEmpty(_)
FirstNonEmpty(vs) ==
    IF vs = <<>> THEN PyNone
    ELSE IF PyBool(Head(vs)) THEN Head(vs) ELSE FirstNonEmpty(Tail(vs))

\* v is the value want, both being empty when want is.
Same(v, want) == IF PyBool(want) THEN (v.t = "str" /\ v.s = want.s) ELSE ~PyBool(v)

\* C16: in the merged table, for every sailing code the departure time, the
\* arrival time and the vessel name are each the first non-empty value
\* across the per-class mappings in the precedence tourist > business >
\* first > economy.
C16_MergePrecedence ==
    Merged =>
        \A i \in 1..Len(res.results) :
            LET x == res.results[i]
                t == EntryOf(ClassMaps.t, x.codigo)
                b == EntryOf(ClassMaps.b, x.codigo)
                p == EntryOf(ClassMaps.p, x.codigo)
                e == EntryOf(ClassMaps.e, x.codigo)
            IN  /\ Same(x.hora_salida, FirstNonEmpty(<<t.hs, b.hs, p.hs, e.hs>>))
                /\ Same(x.hora_llegada, FirstNonEmpty(<<t.ha, b.ha, p.ha, e.ha>>))
                /\ Same(x.barco, FirstNonEmpty(<<t.ship, b.ship, p.ship, e.ship>>))

\* The amount a formatted text denotes, in hundredths: its digits, with the
\* sign (None for no text).
AmountIn(text) ==
    IF text.t = "None" THEN PyNone
    ELSE PyFloat((IF \E i \in 1..Len(text.s) : text.s[i] = "-" THEN 0 - 1 ELSE 1)
                 * Decimal(SelectSeq(text.s, IsDigit)))

\* The sailing codes of the per-class mappings m.
CodesOf(m) == DOMAIN m.t.d \cup DOMAIN m.b.d \cup DOMAIN m.p.d \cup DOMAIN m.e.d
AllCodes == CodesOf(ClassMaps)

\* The records are one per code of the mappings m, each with the amounts m
\* holds for its code.
OnePerCode(m, results) ==
    /\ {results[i].codigo : i \in 1..Len(results)} = CodesOf(m)
    /\ Len(results) = Cardinality(CodesOf(m))
    /\ \A i \in 1..Len(results) :
          LET x == results[i] IN
          /\ AmountIn(x.turista) = EntryOf(m.t, x.codigo).total
          /\ AmountIn(x.business) = EntryOf(m.b, x.codigo).total
          /\ AmountIn(x.primera) = EntryOf(m.p, x.codigo).total
          /\ AmountIn(x.economica) = EntryOf(m.e, x.codigo).total

\* C17: the table of fetch_day_web_prices_pro has exactly one record per
\* sailing code in the union of the keys of the per-class extractor maps,
\* and each record carries, for each class, exactly the amount that class's
\* map holds for the code (absent when the code is not in that map).
C17_OneRecordPerCode == Merged => OnePerCode(ClassMaps, res.results)

\* C17's case: two tourist sailings and one overlapping business sailing
\* give two records, the overlapping one with both amounts and a
\* differential.
C17_Witness ==
    /\ Merged
    /\ Len(res.results) = 2
    /\ \A i \in 1..2 : res.results[i].turista.t = "str"
    /\ \E i \in 1..2 :
          /\ res.results[i].business.t = "str"
          /\ res.results[i].diferencia.t = "str"
          /\ res.results[3 - i].business.t = "None"
          /\ res.results[3 - i].diferencia.t = "None"

\* A table has been returned, by fetch_day_web_prices_pro or by
\* fetch_day_web_prices.
Tabled == fn \in {"fetch_day_web_prices_pro", "fetch_day_web_prices"} /\ res.t = "return"

\* C18: for every merged sailing record, the differential is the business
\* amount minus the tourist amount whenever both amounts are present, zero
\* and equal amounts included, and is absent whenever either is absent.
C18_Differential ==
    Tabled =>
        \A i \in 1..Len(res.results) :
            LET x == res.results[i]
                tur == EntryOf(ClassMaps.t, x.codigo).total
                bus == EntryOf(ClassMaps.b, x.codigo).total
            IN  IF tur.t = "float" /\ bus.t = "float"
                THEN x.diferencia.t = "str" /\ AmountIn(x.diferencia).c = bus.c - tur.c
                ELSE x.diferencia.t = "None"

\* The departure time of a record is known.
Known(x) == PyBool(x.hora_salida)

\* C19: the table of fetch_day_web_prices_pro is sorted ascending by
\* departure time, and every sailing whose departure time is unknown comes
\* after all sailings with a known one, whatever the order of the codes.
C19_SortedByDeparture ==
    Merged =>
        \A i, j \in 1..Len(res.results) :
            i < j =>
                /\ (Known(res.results[i]) /\ Known(res.results[j])) =>
                      StrLeq(res.results[i].hora_salida.s, res.results[j].hora_salida.s)
                /\ Known(res.results[j]) => Known(res.results[i])

\* C19's case: the sailing with the smaller code has no known departure time
\* and comes last, after a sailing with a known one.
C19_Witness ==
    /\ Merged
    /\ Len(res.results) = 2
    /\ StrLess(res.results[2].codigo, res.results[1].codigo)
    /\ Known(res.results[1])
    /\ ~Known(res.results[2])

\* --------------------------------------------- _normalize_date_to_yymmdd
\* s.split(sep): the parts of s between the separators.
RECURSIVE Split(_, _)
Split(s, sep) ==
    IF \A i \in 1..Len(s) : s[i] # sep THEN <<s>>
    ELSE LET k == CHOOSE i \in 1..Len(s) : s[i] = sep /\ \A j \in 1..(i - 1) : s[j] # sep
         IN  <<SubSeq(s, 1, k - 1)>> \o Split(SubSeq(s, k + 1, Len(s)), sep)

\* s.zfill(2)
zfill2(s) ==
    IF Len(s) = 0 THEN <<"0", "0">> ELSE IF Len(s) = 1 THEN <<"0">> \o s ELSE s

\* The first two characters.
FirstTwo(s) == SubSeq(s, 1, IF Len(s) < 2 THEN Len(s) ELSE 2)

\* s[-2:]
LastTwo(s) == SubSeq(s, IF Len(s) < 2 THEN 1 ELSE Len(s) - 1, Len(s))

\* re.fullmatch(r"\d{6}", s)
SixDigits(s) == Len(s) = 6 /\ \A i \in 1..6 : IsDigit(s[i])

\* What a call returns.
Returns(v) == [t |-> "return", v |-> v]

\* BuquebusClient._normalize_date_to_yymmdd(fecha): (yy, mm, dd), or the
\* ValueError of unpacking a split that has not three parts.
normalize_date_to_yymmdd(text) ==
    LET fecha == StripStr(text)
        parts == IF \E i \in 1..Len(fecha) : fecha[i] = "/"
                 THEN LET q == Split(fecha, "/") IN
                      IF Len(q) = 3 THEN <<q[3], q[2], q[1]>> ELSE <<>>
                 ELSE LET q == Split(fecha, "-") IN
                      IF Len(q) = 3 THEN q ELSE <<>>
    IN  IF SixDigits(fecha)
        THEN Returns(<<SubSeq(fecha, 1, 2), SubSeq(fecha, 3, 4), SubSeq(fecha, 5, 6)>>)
        ELSE IF parts = <<>> THEN PyRaise("ValueError")
        ELSE Returns(<<LastTwo(parts[1]), zfill2(parts[2]), zfill2(parts[3])>>)

\* yy + mm + dd, as the callers join the result.
Joined(v) == v[1] \o v[2] \o v[3]

\* --------------------------------------------------------------- SpecDate
\* Blanks around the text of a date.
MaxBlanks == 1

\* Calendar dates <<year, month, day>> of the requests.
Dates ==
    {<<y, m, d>> : y \in {1999, 2000, 2005, 2025}, m \in {1, 3, 12}, d \in {1, 9, 14, 31}}

\* A number in decimal with at least w digits.
RECURSIVE Padded(_, _)
Padded(n, w) ==
    IF w <= 1 THEN DigitsOf(n)
    ELSE IF Len(DigitsOf(n)) >= w THEN DigitsOf(n)
    ELSE <<"0">> \o Padded(n, w - 1) 

\* The forms a date is accepted in: YYYY-MM-DD, DD/MM/YYYY, YYMMDD, and the
\* first two with month and day not padded.
Forms == {"YYYY-MM-DD", "DD/MM/YYYY", "YYMMDD", "YYYY-M-D", "D/M/YYYY"}
Written(date, form) ==
    CASE form = "YYYY-MM-DD" ->
            Padded(date[1], 4) \o <<"-">> \o Padded(date[2], 2) \o <<"-">> \o Padded(date[3], 2)
      [] form = "DD/MM/YYYY" ->
            Padded(date[3], 2) \o <<"/">> \o Padded(date[2], 2) \o <<"/">> \o Padded(date[1], 4)
      [] form = "YYMMDD" ->
            Padded(date[1] % 100, 2) \o Padded(date[2], 2) \o Padded(date[3], 2)
      [] form = "YYYY-M-D" ->
            Padded(date[1], 4) \o <<"-">> \o DigitsOf(date[2]) \o <<"-">> \o DigitsOf(date[3])
      [] form = "D/M/YYYY" ->
            DigitsOf(date[3]) \o <<"/">> \o DigitsOf(date[2]) \o <<"/">> \o Padded(date[1], 4)

Blanks(n) == [i \in 1..n |-> " "]

\* yy, mm, dd = self._normalize_date_to_yymmdd(fecha)
Normalize ==
    /\ fn = "fecha"
    /\ fn' = "_normalize_date_to_yymmdd"
    /\ res' = normalize_date_to_yymmdd(arg.text)
    /\ UNCHANGED <<arg, bvars, gvars, qvars>>

\* The normalized value yy + mm + dd is the fecha of another call.
NormalizeAgain ==
    /\ fn = "_normalize_date_to_yymmdd"
    /\ res.t = "return"
    /\ fn' = "normalized twice"
    /\ res' = normalize_date_to_yymmdd(Joined(res.v))
    /\ UNCHANGED <<arg, bvars, gvars, qvars>>

InitDate ==
    /\ NoClient
    /\ fn = "fecha"
    /\ res = <<>>
    /\ \E date \in Dates, form \in Forms, l \in 0..MaxBlanks, r \in 0..MaxBlanks :
          arg = [date |-> date, form |-> form,
                 text |-> Blanks(l) \o Written(date, form) \o Blanks(r)]

NextDate ==
    \/ Normalize
    \/ NormalizeAgain

SpecDate == InitDate /\ [][NextDate]_vars

\* The 6-digit value of a calendar date: the last two digits of the year,
\* the month and the day, two digits each.
YYMMDD(date) == Padded(date[1] % 100, 2) \o Padded(date[2], 2) \o Padded(date[3], 2)

\* C20: _normalize_date_to_yymmdd is total and deterministic on valid
\* inputs: every accepted form of a calendar date normalizes to the same
\* 6-digit YYMMDD value of that date, and normalizing a normalized value
\* returns it unchanged.
C20_NormalizeDate ==
    fn \in {"_normalize_date_to_yymmdd", "normalized twice"} =>
        /\ res.t = "return"
        /\ SixDigits(Joined(res.v))
        /\ Joined(res.v) = YYMMDD(arg.date)

\* C20's case: a date written DD/MM/YYYY has been normalized, and its
\* normalized value normalized again.
C20_Witness ==
    /\ fn = "normalized twice"
    /\ arg.form = "DD/MM/YYYY"
    /\ arg.date = <<2025, 3, 14>>
    /\ Joined(res.v) = <<"2", "5", "0", "3", "1", "4">>

\* Two extractor results are the same: the same exception, or maps with
\* the same sailing codes and the same amount for each.
SameAmounts(a, b) ==
    IF a.t = "dict" /\ b.t = "dict"
    THEN /\ DOMAIN a.d = DOMAIN b.d
         /\ \A code \in DOMAIN a.d : a.d[code].total = b.d[code].total
    ELSE a = b

\* C28: the two fare extractors agree: for every upstream response,
\* _totales_por_tarifa(response, "PROGRAMADA") and
\* _totales_programada_por_sailing(response) yield the same set of sailing
\* codes with the same amounts.
C28_ExtractorsAgree ==
    (fn = "_totales_por_tarifa" /\ res.tarifa = PROGRAMADA) =>
        SameAmounts(res.out, totales_programada_por_sailing(arg))

\* ------------------------------------------------ claims on the requests
\* C26: all per-class requests sent for one fetch_day_web_prices_pro query
\* carry the same credential: in every interleaving and for any clock
\* advance or cache change during the query, the token field of the request
\* bodies built so far is identical.
C26_SameCredential ==
    \A w, v \in Workers :
        (sent[w] # None /\ sent[v] # None) => sent[w] = sent[v]

\* The tariff label the extractor looks up in the response of seat class w:
\* _totales_programada_por_sailing for tourist, business and first,
\* _totales_por_tarifa(raw_e, "ECONOMICA") for economy.
LookupTariff(w) == IF Seats[w] = "ESEAT" THEN ECONOMICA ELSE PROGRAMADA

\* The tariff types listed under m_TARF_TariffCodeTypeDescription in the
\* request body of seat class w. AR: _post_day_pricing lists PROGRAMADA and
\* _post_day_pricing_economica replaces the list of _payload_day by
\* ECONOMICA. UY: _payload lists PROGRAMADA for every seat code.
RequestedTariffs(m, w) ==
    IF m = "AR" /\ Seats[w] = "ESEAT" THEN {ECONOMICA} ELSE {PROGRAMADA}

\* C29: for every market and every seat class of fetch_day_web_prices_pro,
\* the tariff label the extractor looks up in that class's response is one
\* of the tariff types listed in that class's request body.
C29_LookupIsRequested ==
    \A w \in Workers :
        sent[w] # None => LookupTariff(w) \in RequestedTariffs(market, w)

\* The upstream call of seat class w has been issued.
Issued(w) == fut[w].state = "done" \/ fut[w] = FutExc("RequestException")

\* C24: each fetch_day_web_prices_pro query issues exactly one upstream
\* pricing call per seat class: a future goes from submitted to its one
\* result and never changes afterwards (no call is issued again after a
\* failure), a query that returns has issued all four, and never more than
\* four calls of the query are in flight.
C24_OneCallPerClass ==
    /\ [](/\ Cardinality({w \in Workers : fut[w].state = "running"}) <= 4
          /\ qpc = "returned" => \A w \in Workers : Issued(w))
    /\ [][\A w \in Workers :
            fut'[w] # fut[w] =>
                \/ fut[w].state = "wait" /\ fut'[w].state = "running"
                \/ fut[w].state = "running" /\ fut'[w].state \in {"done", "exc"}]_vars

\* C24's case: the business call was rejected, was not issued again, and
\* the query returned its table.
C24_Witness ==
    /\ qpc = "returned"
    /\ qres.st = 200
    /\ fut[2].state = "done"
    /\ fut[2].st = 403

\* A pricing call ends in this step.
CallEnds == \E w \in Workers : fut[w].state = "running" /\ fut'[w].state \in {"done", "exc"}

\* C27: the credential store of a market is written only by a successful
\* browser acquisition: every upstream pricing call, whatever its status,
\* and every failed acquisition leave the stored (token, expiry) unchanged,
\* so a rejected cached credential is still what the store check of the
\* next query returns until its stored expiry passes.
C27_StoreWrittenByAcquisition ==
    /\ [][/\ cache' # cache =>
               \E c \in Threads :
                   /\ pc[c] = "save" /\ pc'[c] = "ret_new"
                   /\ Truthy(tok[c])
                   /\ cache' = save_token(tok[c], exp[c])
          /\ CallEnds => cache' = cache
          /\ (\E c \in Threads : pc[c] = "browser" /\ pc'[c] = "raised") => cache' = cache
          /\ \A w \in Workers :
                (/\ fut[w].state = "running" /\ fut'[w].state = "done"
                 /\ fut'[w].st # 200
                 /\ sent'[w] = cache.token
                 /\ get_cached_token(market, cache, now) = cache.token) =>
                    get_cached_token(market, cache', now') = sent'[w]]_vars

\* C27's case: a call made with the stored credential was rejected and the
\* store still holds that credential, not expired.
C27_Witness ==
    \E w \in Workers :
        /\ fut[w].state = "done"
        /\ fut[w].st = 403
        /\ env = ""
        /\ sent[w] = cache.token
        /\ get_cached_token(market, cache, now) = sent[w]

\* ---------------------------------------------------------------- SpecLive
\* A thread of another request that calls _get_valid_token of the same
\* client once while the query runs.
Rival == Main + 1

\* The query goes on as in SpecPro; the clock stands still.
QueryStep ==
    \/ Q_Call
    \/ \E w \in Workers : AR_TaskCall(w)
    \/ UY_Lock(Main)
    \/ UY_SecondCheck(Main)
    \/ \E c \in ProThreads : Obtain(c)
    \/ \E c \in ProThreads : Save(c)
    \/ Q_Ensured
    \/ UY_Submit
    \/ Q_Raised
    \/ \E w \in Workers : AR_Task(w)
    \/ \E w \in Workers : AR_TaskRaised(w)
    \/ \E w \in Workers : UY_Task(w)
    \/ Q_Join
    \/ Q_Unwind

\* The other thread's one call of _get_valid_token.
RivalStep ==
    \/ AR_Enter(Rival)
    \/ UY_Enter(Rival)
    \/ UY_Lock(Rival)
    \/ UY_SecondCheck(Rival)
    \/ Obtain(Rival)
    \/ Save(Rival)

InitLive ==
    /\ InitShared
    /\ InitThreads(ProThreads \cup {Rival})
    /\ qpc = "ensure"
    /\ qi = 1
    /\ fut = [w \in Workers |-> FutWait]
    /\ sent = [w \in Workers |-> None]
    /\ qres = FutWait
    /\ NoCall
    /\ NoBrowser

\* time.time() moves on between the primary credential check and the first
\* per-class task, once the rival caller has left the manager: the place
\* where it makes a task of the query find the store expired.
TickLive ==
    /\ qpc \in {"join", "payload"}
    /\ qi = 1
    /\ \A c \in ProThreads : pc[c] = "idle"
    /\ pc[Rival] \in Returned \cup {"raised"}
    /\ \A w \in Workers : fut[w].state \in {"wait", "running"}
    /\ TickPro

NextLive ==
    \/ QueryStep
    \/ RivalStep
    \/ TickLive

\* Every upstream call and every browser step ends (timeout=30 of the
\* requests, timeout=self.timeout_ms of page.goto), and the interpreter
\* runs a thread that can go on: some step is taken while one is possible.
SpecLive == InitLive /\ [][NextLive]_vars /\ WF_vars(NextLive)

\* C21: every fetch_day_web_prices_pro invocation eventually returns a
\* table or a failure, and no caller of _get_valid_token waits forever:
\* the query ends and the other caller's call ends, also when it was
\* blocked on the lock while the holder's acquisition failed.
C21_NoCallerWaitsForever ==
    <>(/\ qpc \in {"returned", "raised"}
       /\ pc[Rival] \in Returned \cup {"raised"})

\* C21's case: the acquisition of the lock holder has just failed while the
\* other caller is blocked on the lock.
C21_Witness ==
    \E c, d \in {Main, Rival} :
        /\ last = <<"Obtain", c>>
        /\ pc[c] = "raised"
        /\ pc[d] = "lock"
        /\ token_lock = NoThread


(***************************************************************************)
(* The browser session of _obtain_token_via_playwright, step by step.      *)
(* The page is the environment: while a step runs it may send a request    *)
(* whose body carries a credential, or none.                               *)
(***************************************************************************)
Requests == {None} \cup UpstreamTokens

\* on_request: the AR listener keeps the first credential it sees, the UY
\* listener the latest.
on_request(t) ==
    IF ~Truthy(t) THEN holder
    ELSE IF market = "AR" /\ Truthy(holder) THEN holder
    ELSE t

\* History: the session passed the place of fallback op, holding `holder`
\* before it, and ran it or skipped it.
Passed(op, ran) == Append(passed, [op |-> op, held |-> holder, ran |-> ran])

\* page.goto raises (navigation failed or timed out): nothing catches it
\* inside the function, so the function is left at once.
NavigationRaises(op) ==
    /\ bpc' = "raised"
    /\ passed' = Passed(op, TRUE)
    /\ UNCHANGED holder

\* page.goto(url, ...): the first navigation, requests observed meanwhile.
B_Goto ==
    /\ bpc = "goto"
    /\ \/ \E t \in Requests :
             /\ holder' = on_request(t)
             /\ passed' = Passed("observe", TRUE)
             /\ bpc' = "wait"
       \/ NavigationRaises("observe")
    /\ UNCHANGED <<storage, fn, arg, res, gvars, qvars>>

\* page.wait_for_timeout(...): the first pass, not conditional in either
\* market.
B_Wait ==
    /\ bpc = "wait"
    /\ \E t \in Requests : holder' = on_request(t)
    /\ passed' = Passed("wait", TRUE)
    /\ bpc' = "trigger"
    /\ UNCHANGED <<storage, fn, arg, res, gvars, qvars>>

\* page.evaluate(fetch("/api/products")) and the wait after it: AR only when
\* nothing is held, UY always.
B_Trigger ==
    /\ bpc = "trigger"
    /\ IF market = "UY" \/ ~Truthy(holder)
       THEN /\ \E t \in Requests : holder' = on_request(t)
            /\ passed' = Passed("trigger", TRUE)
       ELSE /\ passed' = Passed("trigger", FALSE)
            /\ UNCHANGED holder
    /\ bpc' = IF market = "AR" THEN "reload" ELSE "scan"
    /\ UNCHANGED <<storage, fn, arg, res, gvars, qvars>>

\* AR only: page.goto with another _rsc and a wait, when nothing is held.
B_Reload ==
    /\ bpc = "reload"
    /\ IF ~Truthy(holder)
       THEN \/ /\ \E t \in Requests : holder' = on_request(t)
               /\ passed' = Passed("reload", TRUE)
               /\ bpc' = "scan"
            \/ NavigationRaises("reload")
       ELSE /\ passed' = Passed("reload", FALSE)
            /\ bpc' = "scan"
            /\ UNCHANGED holder
    /\ UNCHANGED <<storage, fn, arg, res, gvars, qvars>>

\* re.search('"token": "..."', page.content()), when nothing is held.
B_Scan ==
    /\ bpc = "scan"
    /\ IF ~Truthy(holder)
       THEN /\ \E t \in Requests : holder' = t
            /\ passed' = Passed("scan", TRUE)
       ELSE /\ passed' = Passed("scan", FALSE)
            /\ UNCHANGED holder
    /\ bpc' = "storage"
    /\ UNCHANGED <<storage, fn, arg, res, gvars, qvars>>

\* context.storage_state(path=STORAGE_STATE_FILE) inside try/except: the
\* snapshot is written, or the failure is swallowed.
B_Storage ==
    /\ bpc = "storage"
    /\ storage' \in {"new", storage}
    /\ bpc' = "close"
    /\ UNCHANGED <<holder, passed, fn, arg, res, gvars, qvars>>

\* browser.close() and the return of (token, now + 36000) or (None, None).
B_Close ==
    /\ bpc = "close"
    /\ bpc' = "done"
    /\ res' = IF Truthy(holder) THEN <<holder, now + TokenTTL>>
              ELSE <<None, NoExp>>
    /\ UNCHANGED <<holder, passed, storage, fn, arg, gvars, qvars>>

InitBrowser ==
    /\ market \in Markets
    /\ env = ""
    /\ now = Now0
    /\ ticks = 0
    /\ cache = NoFile
    /\ token_lock = NoThread
    /\ last = <<"Init", NoThread>>
    /\ InitThreads({})
    /\ NoQuery
    /\ fn = "_obtain_token_via_playwright"
    /\ arg = None
    /\ res = None
    /\ bpc = "goto"
    /\ holder = None
    /\ passed = <<>>
    /\ storage \in {"none", "old"}

NextBrowser ==
    \/ B_Goto
    \/ B_Wait
    \/ B_Trigger
    \/ B_Reload
    \/ B_Scan
    \/ B_Storage
    \/ B_Close

SpecBrowser == InitBrowser /\ [][NextBrowser]_vars

\* The order the specification gives to the fallbacks.
FallbackOrder == <<"observe", "wait", "trigger", "reload", "scan">>

Place(op) == CHOOSE i \in DOMAIN FallbackOrder : FallbackOrder[i] = op

\* The fallbacks that do something to the page.
Conditional == {"trigger", "reload", "scan"}

\* C22: in every market the fallbacks are passed in the order observe,
\* wait, trigger the catalog request, reload with a new random parameter,
\* scan the markup; triggering, reloading and scanning are run exactly when
\* no credential was captured before them; a session that ends normally has
\* passed all five.
C22_FallbackOrder ==
    /\ \A i, j \in DOMAIN passed :
          i < j => Place(passed[i].op) < Place(passed[j].op)
    /\ \A i \in DOMAIN passed :
          passed[i].op \in Conditional
             => (passed[i].ran <=> ~Truthy(passed[i].held))
    /\ bpc = "done" => Len(passed) = Len(FallbackOrder)

\* C23: a browser session that has ended, normally or by an exception, has
\* written a new snapshot of the cookies and storage.
C23_StoragePersisted ==
    bpc \in {"done", "raised"} => storage = "new"


(***************************************************************************)
(* GET /debug/token of api.py, called at any moment of the token manager.  *)
(* It reads the override and the AR store file only.                       *)
(***************************************************************************)

\* What the "exp" claim in the payload of the token read may be: absent (or
\* the token is no JWT), already past, or far ahead.  Nothing ties it to the
\* expiry recorded in the store.
PayloadExps == {NoExp, Now0, Now0 + (2 * TokenTTL)}

\* tok: os.environ["BQB_STATIC_TOKEN"] as it is, else the "token" of the
\* store file.
debug_read == IF Truthy(env) THEN env ELSE cache.token

\* The body returned for the token read and the exp of its payload.
debug_body(t, e) ==
    IF ~Truthy(t) THEN [hasToken |-> FALSE]
    ELSE [hasToken |-> TRUE,
          masked   |-> "masked",
          valid    |-> (e = NoExp \/ e > now),
          exp      |-> e]

debug_token ==
    /\ market = "AR"
    /\ \E e \in PayloadExps : res' = debug_body(debug_read, e)
    /\ fn' = "debug_token"
    /\ arg' = debug_read
    /\ last' = <<"Debug", NoThread>>
    /\ UNCHANGED <<bvars, market, env, now, ticks, cache, token_lock,
                   pc, tok, exp, ret, qvars>>

NextDebug ==
    \/ Next
    \/ debug_token

SpecDebug == Init /\ [][NextDebug]_vars

\* What _get_valid_token of the AR client returns in this state without
\* launching the browser; None when it would launch it.
WithoutAcquisition ==
    IF Truthy(env) THEN Strip(env) ELSE get_cached_token("AR", cache, now)

\* C30: right after debug_token has answered, it reports hasToken and valid
\* exactly when _get_valid_token would, in the same state of the store, the
\* override and the clock, return the credential debug_token read without
\* launching an acquisition.
C30_DebugAgrees ==
    last = <<"Debug", NoThread>>
       => ((res.hasToken /\ res.valid)
              <=> (Truthy(WithoutAcquisition) /\ WithoutAcquisition = arg))

=============================================================================
